---- MODULE Spec2Model ----
(***************************************************************************)
(* Model of app.py: the destination registry (GROUP_CHAT_IDS and its       *)
(* groups.json file), the Telegram event handlers that mutate it, and the  *)
(* daily scheduler loop with its broadcast.                                *)
(*                                                                         *)
(* The asyncio event loop is single-threaded: a coroutine runs without     *)
(* interruption between two awaits.  Each action below is one such         *)
(* uninterrupted segment.                                                  *)
(***************************************************************************)
EXTENDS Integers, Sequences, FiniteSets, TLC

VARIABLES
    now,                      \* wall clock (now_local), in ticks of HoursPerTick hours
    GROUP_CHAT_IDS,           \* the in-memory registry (app.py:25)
    file,                     \* groups.json on disk (app.py:24)
    CATCH_UP_PAST_DEADLINES,  \* configuration read at import (app.py:39)
    pc,                       \* position of background_scheduler
    run_at,                   \* local run_at of background_scheduler
    reminders,                \* local reminders of scheduled_check
    targets,                  \* the list(GROUP_CHAT_IDS) being iterated
    gi, ti,                   \* positions of the two for loops (1-based)
    attempts,                 \* history: send_message calls of the current cycle
    snapSet,                  \* history: GROUP_CHAT_IDS when the list was taken
    cycleResult,              \* history: how the last cycle ended
    lastRunDay,               \* history: local day on which the last cycle started
    ev,                       \* history: what the last handler call did
    sheet,                    \* the worksheet the commands read, as read_rows() returns it
    last_ref,                 \* local ref of the last reminder build / command
    last_tag,                 \* local tag_filter of the last command ("" is None)
    reply                     \* text of the last reply_text

vars == <<now, GROUP_CHAT_IDS, file, CATCH_UP_PAST_DEADLINES, pc, run_at,
          reminders, targets, gi, ti, attempts, snapSet, cycleResult,
          lastRunDay, ev, sheet, last_ref, last_tag, reply>>

\* the variables only the commands and the reminder building use
reportVars == <<sheet, last_ref, last_tag, reply>>

-----------------------------------------------------------------------------
(* Bounds                                                                  *)

\* clock granularity: one tick is this many hours
HoursPerTick == 6
\* the clock stops advancing after this many days
MaxDays == 2
\* longest time (ticks) a sleep overshoots, a sheet read or one send takes
MaxDelay == 2

Min(S) == CHOOSE x \in S : \A y \in S : x <= y

\* chat ids that occur in events (Telegram group ids are negative)
Ids == {-2, 3}
\* "no chat id" in the history variable ev
NoId == Min(Ids) - 1

TicksPerDay == 24 \div HoursPerTick
MaxNow == MaxDays * TicksPerDay

-----------------------------------------------------------------------------
(* Small helpers                                                           *)

Max2(a, b) == IF a >= b THEN a ELSE b

Range(s) == {s[i] : i \in 1..Len(s)}

RECURSIVE sorted(_)
\* Python sorted() of a set of integers: the ascending list
sorted(S) == IF S = {} THEN <<>> ELSE <<Min(S)>> \o sorted(S \ {Min(S)})

\* list(a_set): Python fixes no iteration order for a set
list(S) == {s \in [1..Cardinality(S) -> S] : Range(s) = S}

-----------------------------------------------------------------------------
(* groups.json and JSON                                                    *)

\* characters of a JSON string: the digits 0..9, Minus, and Letter (anything else)
Minus == 9 + 1
Letter == 9 + 2

\* JSON scalars as they occur as list elements
JNum(n)  == [t |-> "num",  n |-> n, chars |-> <<>>]
JStr(cs) == [t |-> "str",  n |-> 0, chars |-> cs]
JNull    == [t |-> "null", n |-> 0, chars |-> <<>>]

\* a JSON document: a scalar or a list of scalars
JDoc(t, n, chars, items) == [t |-> t, n |-> n, chars |-> chars, items |-> items]
JList(items) == JDoc("list", 0, <<>>, items)

NoDoc == JDoc("null", 0, <<>>, <<>>)

\* groups.json: not there; there but its status cannot be queried (stat fails
\* with EACCES, EIO, ...); there but read_text fails; not JSON; a JSON document
FileAbsent       == [kind |-> "absent",       doc |-> NoDoc]
FileInaccessible == [kind |-> "inaccessible", doc |-> NoDoc]
FileUnreadable   == [kind |-> "unreadable",   doc |-> NoDoc]
FileGarbage      == [kind |-> "garbage",      doc |-> NoDoc]
FileJson(d)      == [kind |-> "json",         doc |-> d]

\* results of operations that may raise
Ok(v)  == [raised |-> FALSE, val |-> v]
Raise  == [raised |-> TRUE,  val |-> {}]

RECURSIVE DigitsVal(_)
DigitsVal(cs) ==
    IF cs = <<>> THEN 0
    ELSE 10 * DigitsVal(SubSeq(cs, 1, Len(cs) - 1)) + cs[Len(cs)]

AllDigits(cs) == cs # <<>> /\ \A i \in 1..Len(cs) : cs[i] \in 0..9

\* int(x) for one JSON scalar: ValueError / TypeError become Raise
int(x) ==
    IF x.t = "num" THEN Ok(x.n)
    ELSE IF x.t = "str" THEN
        IF AllDigits(x.chars) THEN Ok(DigitsVal(x.chars))
        ELSE IF Len(x.chars) >= 2 /\ x.chars[1] = Minus /\ AllDigits(Tail(x.chars))
            THEN Ok(0 - DigitsVal(Tail(x.chars)))
        ELSE Raise
    ELSE Raise

\* iter(data): the elements a for loop over the parsed document yields
iter(d) ==
    IF d.t = "list" THEN Ok(d.items)
    ELSE IF d.t = "str" THEN Ok([i \in 1..Len(d.chars) |-> JStr(<<d.chars[i]>>)])
    ELSE Raise

\* json.loads(GROUPS_FILE.read_text()): OSError / JSONDecodeError become Raise
read_json(f) == IF f.kind = "json" THEN Ok(f.doc) ELSE Raise

\* set(int(x) for x in data), raising when any step raises
set_of_ints(f) ==
    LET data == read_json(f) IN
    IF data.raised THEN Raise
    ELSE LET it == iter(data.val) IN
         IF it.raised THEN Raise
         ELSE IF \E i \in 1..Len(it.val) : int(it.val[i]).raised THEN Raise
         ELSE Ok({int(it.val[i]).val : i \in 1..Len(it.val)})

\* GROUPS_FILE.exists(): False when stat reports the file missing; any other
\* OSError of stat is raised again by pathlib
exists(f) ==
    IF f.kind = "inaccessible" THEN [raised |-> TRUE, val |-> FALSE]
    ELSE Ok(f.kind # "absent")

\* load_groups(): the exists() test is outside the try, so its error leaves
\* load_groups; an error of reading or converting yields the empty set
load_groups(f) ==
    LET e == exists(f) IN
    IF e.raised THEN Raise
    ELSE IF ~e.val THEN Ok({})
    ELSE LET r == set_of_ints(f) IN
         IF r.raised THEN Ok({}) ELSE r

\* json.dumps(sorted(groups)): the text save_groups writes
dumps_sorted(groups) ==
    LET s == sorted(groups) IN JList([i \in 1..Len(s) |-> JNum(s[i])])

\* save_groups(groups): what write_text does to the file.
\*   "ok"          the text is written
\*   "fail_open"   OSError before the file is truncated
\*   "fail_trunc"  OSError after open("w") truncated the file
WriteOutcomes == {"ok", "fail_open", "fail_trunc"}

\* save_groups(groups) that writes the set in descending order
save_groups_unsorted(f, groups, outcome) ==
    LET s == sorted(groups)
        n == Len(s)
    IN IF outcome = "ok" THEN Ok(FileJson(JList([i \in 1..n |-> JNum(s[n + 1 - i])])))
       ELSE IF outcome = "fail_open" THEN [raised |-> TRUE, val |-> f]
       ELSE [raised |-> TRUE, val |-> FileGarbage]

save_groups(f, groups, outcome) ==
    IF outcome = "ok" THEN Ok(FileJson(dumps_sorted(groups)))
    ELSE IF outcome = "fail_open" THEN [raised |-> TRUE, val |-> f]
    ELSE [raised |-> TRUE, val |-> FileGarbage]

\* contents groups.json has when the process starts: none yet, one a save
\* wrote, or a damaged one
InitialFiles ==
    {FileAbsent, FileGarbage} \cup {FileJson(dumps_sorted(S)) : S \in SUBSET Ids}

\* further contents of groups.json load_groups may meet
OddFiles ==
    {FileInaccessible, FileUnreadable}
    \cup {FileJson(d) : d \in {
            JDoc("num", 3, <<>>, <<>>),
            JDoc("str", 0, <<3>>, <<>>),
            JList(<<JNum(3), JStr(<<Minus, 2>>), JNum(3)>>),
            JList(<<JNum(3), JStr(<<Letter>>)>>),
            JList(<<JNum(3), JNull>>) }}

-----------------------------------------------------------------------------
(* Rows of the sheet and the deadline logic                                *)

\* dates are day numbers (the local day of tick t is t \div TicksPerDay);
\* NoDate is Python's None
NoDate == 0 - 1

Row(post_date, topic, block, who_tag, d1, d2) ==
    [post_date |-> post_date, topic |-> topic, block |-> block,
     who_tag |-> who_tag, d1 |-> d1, d2 |-> d2]

\* triggers_today(r, ref) without the `d is not None` tests
triggers_today_none_unchecked(r, ref, catch_up) ==
    LET deadlines == <<r.d1, r.d2, r.post_date>> IN
    IF catch_up
    THEN \E i \in 1..3 : deadlines[i] <= ref
    ELSE \E i \in 1..3 : deadlines[i] = ref

\* triggers_today(r, ref) that ignores CATCH_UP_PAST_DEADLINES
triggers_today_exact_only(r, ref, catch_up) ==
    LET deadlines == <<r.d1, r.d2, r.post_date>> IN
    \E i \in 1..3 : deadlines[i] # NoDate /\ deadlines[i] = ref

\* triggers_today(r, ref)
triggers_today(r, ref, catch_up) ==
    LET deadlines == <<r.d1, r.d2, r.post_date>> IN
    IF catch_up
    THEN \E i \in 1..3 : deadlines[i] # NoDate /\ deadlines[i] <= ref
    ELSE \E i \in 1..3 : deadlines[i] # NoDate /\ deadlines[i] = ref

\* deadlines_ahead_list(r, ref) that also collects post_date
deadlines_ahead_list_with_post(r, ref) ==
    sorted({d \in {r.d1, r.d2, r.post_date} : d # NoDate /\ d >= ref})

\* deadlines_ahead_list(r, ref)
deadlines_ahead_list(r, ref) ==
    sorted({d \in {r.d1, r.d2} : d # NoDate /\ d >= ref})

\* one line of a message: the tag, or a labelled text, or labelled dates
Part(k, s, ds) == [k |-> k, s |-> s, ds |-> ds]

\* Python's None for a message: no parts at all
NoMsg == <<>>

\* build_reminder_message(tag, r, ref) that returns the bare tag too
build_reminder_message_bare_tag(tag, r, ref) ==
    LET dls == deadlines_ahead_list(r, ref)
    IN <<Part("tag", tag, <<>>)>>
        \o (IF r.post_date # NoDate THEN <<Part("post", "", <<r.post_date>>)>> ELSE <<>>)
        \o (IF r.topic # "" THEN <<Part("topic", r.topic, <<>>)>> ELSE <<>>)
        \o (IF r.block # "" THEN <<Part("block", r.block, <<>>)>> ELSE <<>>)
        \o (IF dls # <<>> THEN <<Part("dls", "", dls)>> ELSE <<>>)

\* build_reminder_message(tag, r, ref)
build_reminder_message(tag, r, ref) ==
    LET dls == deadlines_ahead_list(r, ref)
        parts == <<Part("tag", tag, <<>>)>>
            \o (IF r.post_date # NoDate THEN <<Part("post", "", <<r.post_date>>)>> ELSE <<>>)
            \o (IF r.topic # "" THEN <<Part("topic", r.topic, <<>>)>> ELSE <<>>)
            \o (IF r.block # "" THEN <<Part("block", r.block, <<>>)>> ELSE <<>>)
            \o (IF dls # <<>> THEN <<Part("dls", "", dls)>> ELSE <<>>)
    IN IF Len(parts) <= 1 THEN NoMsg ELSE parts

RECURSIVE build_reminders_keeps_untagged(_, _, _)
\* the for loop of scheduled_check without `if not r.who_tag: continue`
build_reminders_keeps_untagged(rows, ref, catch_up) ==
    IF rows = <<>> THEN <<>>
    ELSE LET r == Head(rows)
             rest == build_reminders_keeps_untagged(Tail(rows), ref, catch_up)
             msg == build_reminder_message(r.who_tag, r, ref)
         IN IF ~triggers_today(r, ref, catch_up) THEN rest
            ELSE IF msg # NoMsg THEN <<msg>> \o rest
            ELSE rest

RECURSIVE build_reminders(_, _, _)
\* the for loop of scheduled_check that fills reminders
build_reminders(rows, ref, catch_up) ==
    IF rows = <<>> THEN <<>>
    ELSE LET r == Head(rows)
             rest == build_reminders(Tail(rows), ref, catch_up)
             msg == build_reminder_message(r.who_tag, r, ref)
         IN IF r.who_tag = "" THEN rest
            ELSE IF ~triggers_today(r, ref, catch_up) THEN rest
            ELSE IF msg # NoMsg THEN <<msg>> \o rest
            ELSE rest

\* sheets read_rows() may return
Tables == {
    <<Row(1, "", "b", "@y", 0, 2), Row(NoDate, "t", "", "@x", 1, NoDate)>>,
    <<Row(1, "t", "b", "", 1, 2), Row(NoDate, "", "", "@x", 0, NoDate)>>
}

-----------------------------------------------------------------------------
(* The /deadlines_ahead report                                             *)

\* the strings that occur in rows and commands, in Python's str order
StrRank(x) ==
    CASE x = ""   -> 0
      [] x = "@x" -> 1
      [] x = "@y" -> 2
      [] x = "b"  -> 3
      [] x = "t"  -> 4
      [] x = "x"  -> 5

\* date.max: later than every date of a sheet
DateMax == MaxDays + 1

\* a reply_text: which text it is, the tag and the date it names, and the
\* groups of a report
Reply(kind, tag, date, groups) ==
    [kind |-> kind, tag |-> tag, ref |-> date, groups |-> groups]

\* no reply_text has been sent
NoReply == Reply("none", "", NoDate, <<>>)

\* item_key(item) of format_deadlines_ahead
item_key(r, dls) ==
    <<IF dls # <<>> THEN dls[1] ELSE DateMax,
      IF r.post_date # NoDate THEN r.post_date ELSE DateMax,
      StrRank(r.topic)>>

\* Python's < on the key tuples
KeyLess(a, b) ==
    \/ a[1] < b[1]
    \/ a[1] = b[1] /\ a[2] < b[2]
    \/ a[1] = b[1] /\ a[2] = b[2] /\ a[3] < b[3]

RECURSIVE sorted_items(_, _, _)
\* sorted(grouped[tag], key=item_key) over the rows with indices I: the sort
\* is stable, so rows with equal keys keep the order of the sheet
sorted_items(rows, ref, I) ==
    IF I = {} THEN <<>>
    ELSE LET key(i) == item_key(rows[i], deadlines_ahead_list(rows[i], ref))
             first == CHOOSE i \in I : \A j \in I \ {i} :
                          \/ KeyLess(key(i), key(j))
                          \/ ~KeyLess(key(j), key(i)) /\ i < j
         IN <<first>> \o sorted_items(rows, ref, I \ {first})

\* the two lines of one item: "• meta" and the deadlines ahead
render_item(r, dls) ==
    LET meta_bits ==
            (IF r.post_date # NoDate THEN <<Part("date", "", <<r.post_date>>)>> ELSE <<>>)
         \o (IF r.topic # "" THEN <<Part("text", r.topic, <<>>)>> ELSE <<>>)
         \o (IF r.block # "" THEN <<Part("text", r.block, <<>>)>> ELSE <<>>)
    IN [meta |-> IF meta_bits # <<>> THEN meta_bits
                 ELSE <<Part("no_description", "", <<>>)>>,
        dls |-> dls]

RECURSIVE sorted_tags(_)
\* sorted(grouped.keys())
sorted_tags(T) ==
    IF T = {} THEN <<>>
    ELSE LET first == CHOOSE a \in T : \A b \in T : StrRank(a) <= StrRank(b)
         IN <<first>> \o sorted_tags(T \ {first})

\* grouped without `if tag_filter and r.who_tag != tag_filter: continue`
grouped_rows_unfiltered(rows, ref, tag_filter) ==
    {i \in 1..Len(rows) :
        /\ rows[i].who_tag # ""
        /\ deadlines_ahead_list(rows[i], ref) # <<>>}

\* the rows format_deadlines_ahead puts into grouped: their indices
grouped_rows(rows, ref, tag_filter) ==
    {i \in 1..Len(rows) :
        /\ rows[i].who_tag # ""
        /\ ~(tag_filter # "" /\ rows[i].who_tag # tag_filter)
        /\ deadlines_ahead_list(rows[i], ref) # <<>>}

\* format_deadlines_ahead(rows, ref, tag_filter); tag_filter "" is None
format_deadlines_ahead(rows, ref, tag_filter) ==
    LET G == grouped_rows(rows, ref, tag_filter)
        tags == sorted_tags({rows[i].who_tag : i \in G})
        group(tag) ==
            LET order == sorted_items(rows, ref, {i \in G : rows[i].who_tag = tag})
            IN [tag |-> tag,
                items |-> [k \in 1..Len(order) |->
                    render_item(rows[order[k]],
                                deadlines_ahead_list(rows[order[k]], ref))]]
    IN IF G = {}
       THEN IF tag_filter # ""
            THEN Reply("nothing_ahead_for_tag", tag_filter, NoDate, <<>>)
            ELSE Reply("nothing_ahead", "", NoDate, <<>>)
       ELSE Reply("report", tag_filter, ref, [k \in 1..Len(tags) |-> group(tags[k])])

\* normalise_tag(s): the first @word of s, "" (None) when there is none
normalise_tag(x) == IF x \in {"@x", "@y"} THEN x ELSE ""

\* the argument texts of /deadlines_ahead: none, one without a tag, tags
CommandArgs == {"", "x", "@x", "@y"}

\* users who send /my_deadlines: 1 has a tag, 2 has none, 0 is no user
Users == {0, 1, 2}

\* USER_ID_TO_TAG.get(user_id); "" is None
USER_ID_TO_TAG(user_id) == IF user_id = 1 THEN "@x" ELSE ""

\* the dates a cell of a sheet may hold: none, or a day the clock can reach
Dates == {NoDate} \cup 0..MaxDays

\* every row over the small alphabets
AllRows ==
    {Row(post_date, topic, block, who_tag, d1, d2) :
        post_date \in Dates, topic \in {"", "t"}, block \in {"", "b"},
        who_tag \in {"", "@x", "@y"}, d1 \in Dates, d2 \in Dates}

\* the worksheets the commands and the reminder building are run on: every
\* one-row sheet, the sheets of the cycles, and sheets whose rows share a tag
Sheets ==
    {<<r>> : r \in AllRows}
    \cup Tables
    \cup { <<Row(1, "t", "", "@y", 1, NoDate), Row(0, "", "b", "@x", 1, 0),
             Row(NoDate, "t", "", "@x", 1, 1), Row(NoDate, "", "", "@x", NoDate, 0)>>,
           <<Row(0, "t", "b", "@x", 0, 1), Row(0, "t", "", "@x", 1, 0),
             Row(NoDate, "", "", "", 1, 1)>> }

\* read_rows(): the rows, or an exception from gspread
ReadResults == {[raised |-> FALSE, val |-> t] : t \in Tables}
               \cup {[raised |-> TRUE, val |-> <<>>]}

-----------------------------------------------------------------------------
(* Registry mutations                                                      *)

\* what one handler call did: the mutation asked for, whether chat_id was in
\* the set before, whether save_groups was called, whether it failed, whether
\* an exception left the handler, whether the process died inside the call
Event(op, id, present, saved, failed, raised, crashed) ==
    [op |-> op, id |-> id, present |-> present, saved |-> saved,
     failed |-> failed, raised |-> raised, crashed |-> crashed]

NoEvent == Event("none", NoId, FALSE, FALSE, FALSE, FALSE, FALSE)

\* the state a call leaves (the set, the file) and what happened in it
Effect(groups, f, saved, failed, raised) ==
    [groups |-> groups, file |-> f, saved |-> saved, failed |-> failed,
     raised |-> raised]

\* register_group(chat_id) with the set written before the id is added
register_group_save_first(groups, f, chat_id, w) ==
    IF chat_id \notin groups
    THEN LET s == save_groups(f, groups, w)
         IN Effect(groups \cup {chat_id}, s.val, TRUE, s.raised, s.raised)
    ELSE Effect(groups, f, FALSE, FALSE, FALSE)

\* register_group(chat_id) without the membership test
register_group_always_saves(groups, f, chat_id, w) ==
    LET added == groups \cup {chat_id}
        s == save_groups(f, added, w)
    IN Effect(added, s.val, TRUE, s.raised, s.raised)

\* register_group(chat_id); w is what write_text does if it is called.
\* Nothing catches the OSError of save_groups: it leaves register_group.
register_group(groups, f, chat_id, w) ==
    IF chat_id \notin groups
    THEN LET added == groups \cup {chat_id}
             s == save_groups(f, added, w)
         IN Effect(added, s.val, TRUE, s.raised, s.raised)
    ELSE Effect(groups, f, FALSE, FALSE, FALSE)

\* the left/kicked branch with the removal undone when save_groups raises
unregister_group_save_gated(groups, f, chat_id, w) ==
    IF chat_id \in groups
    THEN LET removed == groups \ {chat_id}
             s == save_groups(f, removed, w)
         IN Effect(IF s.raised THEN groups ELSE removed, s.val, TRUE, s.raised, s.raised)
    ELSE Effect(groups, f, FALSE, FALSE, FALSE)

\* the left/kicked branch of on_my_chat_member
unregister_group(groups, f, chat_id, w) ==
    IF chat_id \in groups
    THEN LET removed == groups \ {chat_id}
             s == save_groups(f, removed, w)
         IN Effect(removed, s.val, TRUE, s.raised, s.raised)
    ELSE Effect(groups, f, FALSE, FALSE, FALSE)

ChatTypes == {"private", "group", "supergroup", "channel"}
Statuses == {"member", "administrator", "restricted", "left", "kicked"}

IsGroup(chat_type) == chat_type \in {"group", "supergroup"}

\* what an inbound update asks of the registry: a message in a group and the
\* bot becoming member/administrator of one register it, the bot leaving or
\* being kicked unregisters it, another status asks nothing ("ignore"), and
\* an update of a chat that is not a group is "foreign"
EventKind(update, chat_type, new_status) ==
    IF chat_type \notin {"group", "supergroup"} THEN "foreign"
    ELSE IF update = "message" THEN "register"
    ELSE IF new_status \in {"member", "administrator"} THEN "register"
    ELSE IF new_status \in {"left", "kicked"} THEN "unregister"
    ELSE "ignore"

\* what write_text may do in a call that reaches it (one value when it is not called)
WritesIf(called) == IF called THEN WriteOutcomes ELSE {"ok"}

-----------------------------------------------------------------------------
(* Scheduler                                                               *)

\* REMINDER_TIME = time(15, 0), in ticks
REMINDER_TIME == 15 \div HoursPerTick

\* today_local() at clock value t
today_local(t) == t \div TicksPerDay

\* next_run_at(t) with `target < now`: a run exactly at the target time is
\* followed by another one at once
next_run_at_strict(t, t_now) ==
    LET target == today_local(t_now) * TicksPerDay + t IN
    IF target < t_now THEN target + TicksPerDay ELSE target

\* next_run_at(t) evaluated at clock value t_now
next_run_at(t, t_now) ==
    LET target == today_local(t_now) * TicksPerDay + t IN
    IF target <= t_now THEN target + TicksPerDay ELSE target

\* a scheduler whose except clause is outside the while loop
after_cycle_leaves_loop(raised) == IF raised THEN "stopped" ELSE "sleeping"

\* where background_scheduler continues after the try/except around a cycle:
\* the except clause is inside the while loop, so it loops in both cases
after_cycle(raised) == "sleeping"

\* a broadcast whose try/except is around the loops, not inside them
after_attempt_aborts(ok) == IF ok THEN "next" ELSE "abort"

\* a broadcast that sends again after a TelegramError
after_attempt_retries(ok) == IF ok THEN "next" ELSE "retry"

\* what the broadcast does after one send_message: the try/except
\* TelegramError is inside both loops, so it goes on to the next pair
after_attempt(ok) == "next"

\* a broadcast that drops a group when sending to it fails
groups_after_attempt_drops_failed(groups, group_id, ok) ==
    IF ok THEN groups ELSE groups \ {group_id}

\* GROUP_CHAT_IDS after one send_message to group_id: the except branch only
\* prints, nothing in scheduled_check assigns to the set
groups_after_attempt(groups, group_id, ok) == groups

\* a broadcast that iterates the live set
iterated_live(snapshot, live) == sorted(live)

\* the list the broadcast iterates while the registry changes under it:
\* list(GROUP_CHAT_IDS) is a copy, so it stays what it was
iterated_list(snapshot, live) == snapshot

\* the process is launched just before today's REMINDER_TIME, or exactly at it
InitialClock == {REMINDER_TIME - 1, REMINDER_TIME}

TypeOK ==
    /\ now \in 0..MaxNow
    /\ GROUP_CHAT_IDS \subseteq Ids
    /\ CATCH_UP_PAST_DEADLINES \in BOOLEAN
    /\ pc \in {"init", "sleeping", "sending", "failed"}
    /\ gi \in 1..Cardinality(Ids)
    /\ ti \in 1..2
    /\ cycleResult \in {"none", "running", "done", "empty", "error"}

\* the module is imported and main() runs up to run_polling, with groups.json
\* one of `files`; an exception of load_groups ends the process at the import
InitWith(files) ==
    /\ now \in InitialClock
    /\ file \in files
    /\ CATCH_UP_PAST_DEADLINES \in BOOLEAN
    /\ LET r == load_groups(file) IN
        /\ GROUP_CHAT_IDS = r.val
        /\ pc = IF r.raised THEN "failed" ELSE "init"
    /\ run_at = 0
    /\ reminders = <<>>
    /\ targets = <<>>
    /\ gi = 1
    /\ ti = 1
    /\ attempts = <<>>
    /\ snapSet = {}
    /\ cycleResult = "none"
    /\ lastRunDay = NoDate
    /\ ev = NoEvent
    /\ sheet = <<>>
    /\ last_ref = NoDate
    /\ last_tag = ""
    /\ reply = NoReply

Init == InitWith(InitialFiles)

\* background_scheduler up to its first sleep for run_at (the 2 s start-up
\* sleep is shorter than a tick)
SchedulerStart ==
    /\ pc = "init"
    /\ pc' = "sleeping"
    /\ run_at' = next_run_at(REMINDER_TIME, now)
    /\ ev' = NoEvent
    /\ UNCHANGED <<now, GROUP_CHAT_IDS, file, CATCH_UP_PAST_DEADLINES, reminders,
                   targets, gi, ti, attempts, snapSet, cycleResult, lastRunDay>>
    /\ UNCHANGED reportVars

\* the scheduler goes back to the top of its loop at clock value t and
\* sleeps until the next run_at
BackToSleep(result, raised, t) ==
    /\ pc' = after_cycle(raised)
    /\ cycleResult' = result
    /\ run_at' = next_run_at(REMINDER_TIME, t)
    /\ gi' = 1
    /\ ti' = 1

\* the sleep ends (late by `late`), scheduled_check runs up to its first
\* await: read_rows (taking `dur`), the reminders, the list of the groups
Wake ==
    /\ pc = "sleeping"
    /\ \E late \in 0..MaxDelay, dur \in 0..MaxDelay, rr \in ReadResults :
        LET woke == Max2(run_at, now) + late
            t == woke + dur
            msgs == build_reminders(rr.val, today_local(t), CATCH_UP_PAST_DEADLINES)
        IN
        /\ t <= MaxNow
        /\ now' = t
        /\ lastRunDay' = today_local(woke)
        /\ attempts' = <<>>
        /\ IF rr.raised
           THEN /\ BackToSleep("error", TRUE, t)
                /\ reminders' = <<>>
                /\ targets' = <<>>
                /\ snapSet' = {}
           ELSE IF msgs = <<>>
           THEN /\ BackToSleep("empty", FALSE, t)
                /\ reminders' = <<>>
                /\ targets' = <<>>
                /\ snapSet' = {}
           ELSE /\ reminders' = msgs
                /\ targets' \in list(GROUP_CHAT_IDS)
                /\ snapSet' = GROUP_CHAT_IDS
                /\ IF GROUP_CHAT_IDS = {}
                   THEN BackToSleep("done", FALSE, t)
                   ELSE /\ pc' = "sending"
                        /\ cycleResult' = "running"
                        /\ run_at' = run_at
                        /\ gi' = 1
                        /\ ti' = 1
    /\ ev' = NoEvent
    /\ UNCHANGED <<GROUP_CHAT_IDS, file, CATCH_UP_PAST_DEADLINES>>
    /\ UNCHANGED reportVars

\* one awaited send_message returns: delivered, or TelegramError; then the
\* loops advance.  The clock is read again only when the broadcast is over,
\* `dur` after it began.
Send ==
    /\ pc = "sending"
    /\ \E ok \in BOOLEAN :
        LET then == after_attempt(ok) IN
        /\ attempts' = Append(attempts, [g |-> targets[gi], t |-> ti, ok |-> ok])
        /\ GROUP_CHAT_IDS' = groups_after_attempt(GROUP_CHAT_IDS, targets[gi], ok)
        /\ IF then = "retry"
           THEN UNCHANGED <<now, gi, ti, pc, cycleResult, run_at>>
           ELSE IF then = "next" /\ ti < Len(reminders)
           THEN /\ ti' = ti + 1
                /\ UNCHANGED <<now, gi, pc, cycleResult, run_at>>
           ELSE IF then = "next" /\ gi < Len(targets)
           THEN /\ gi' = gi + 1
                /\ ti' = 1
                /\ UNCHANGED <<now, pc, cycleResult, run_at>>
           ELSE \E dur \in 0..MaxDelay :
                /\ now + dur <= MaxNow
                /\ now' = now + dur
                /\ IF then = "abort"
                   THEN BackToSleep("error", TRUE, now + dur)
                   ELSE BackToSleep("done", FALSE, now + dur)
    /\ ev' = NoEvent
    /\ UNCHANGED <<file, CATCH_UP_PAST_DEADLINES, reminders, targets, snapSet,
                   lastRunDay>>
    /\ UNCHANGED reportVars

-----------------------------------------------------------------------------
(* Handlers                                                                *)

\* a handler call with effect e on the registry runs between two segments of
\* the scheduler
Handled(op, chat_id, e) ==
    /\ GROUP_CHAT_IDS' = e.groups
    /\ file' = e.file
    /\ ev' = Event(op, chat_id, chat_id \in GROUP_CHAT_IDS, e.saved, e.failed,
                   e.raised, FALSE)
    /\ IF pc = "sending"
       THEN /\ targets' = iterated_list(targets, e.groups)
            /\ UNCHANGED <<reminders, attempts, snapSet, cycleResult>>
       ELSE \* the history of a finished cycle is kept for one state only
            /\ targets' = <<>>
            /\ reminders' = <<>>
            /\ attempts' = <<>>
            /\ snapSet' = {}
            /\ cycleResult' = "none"
    /\ UNCHANGED <<now, CATCH_UP_PAST_DEADLINES, pc, run_at, gi, ti, lastRunDay>>
    /\ UNCHANGED reportVars

Ignored == Effect(GROUP_CHAT_IDS, file, FALSE, FALSE, FALSE)

\* on_any_group_message(update)
on_any_group_message ==
    /\ pc # "failed"
    /\ \E chat_type \in ChatTypes, chat_id \in Ids :
        LET op == EventKind("message", chat_type, "") IN
        IF IsGroup(chat_type)
        THEN \E w \in WritesIf(chat_id \notin GROUP_CHAT_IDS) :
                Handled(op, chat_id, register_group(GROUP_CHAT_IDS, file, chat_id, w))
        ELSE Handled(op, chat_id, Ignored)

\* on_my_chat_member(update)
on_my_chat_member ==
    /\ pc # "failed"
    /\ \E chat_type \in ChatTypes, chat_id \in Ids :
        IF ~IsGroup(chat_type)
        THEN \* returns before new_status is read
             Handled(EventKind("my_chat_member", chat_type, ""), chat_id, Ignored)
        ELSE \E new_status \in Statuses :
            LET op == EventKind("my_chat_member", chat_type, new_status) IN
            IF new_status \in {"member", "administrator"}
            THEN \E w \in WritesIf(chat_id \notin GROUP_CHAT_IDS) :
                    Handled(op, chat_id, register_group(GROUP_CHAT_IDS, file, chat_id, w))
            ELSE IF new_status \in {"left", "kicked"}
            THEN \E w \in WritesIf(chat_id \in GROUP_CHAT_IDS) :
                    Handled(op, chat_id, unregister_group(GROUP_CHAT_IDS, file, chat_id, w))
            ELSE Handled(op, chat_id, Ignored)

-----------------------------------------------------------------------------
(* Process death and restart                                               *)

\* main() after the process died leaving file f: the registry is reloaded and
\* a new scheduler task starts
Restart(f) ==
    /\ file' = f
    /\ LET r == load_groups(f) IN
        /\ GROUP_CHAT_IDS' = r.val
        /\ pc' = IF r.raised THEN "failed" ELSE "init"
    /\ run_at' = 0
    /\ reminders' = <<>>
    /\ targets' = <<>>
    /\ gi' = 1
    /\ ti' = 1
    /\ attempts' = <<>>
    /\ snapSet' = {}
    /\ cycleResult' = "none"
    /\ lastRunDay' = NoDate
    /\ UNCHANGED <<now, CATCH_UP_PAST_DEADLINES>>
    /\ UNCHANGED reportVars

\* the process dies between two handler calls and is started again
Crash ==
    /\ pc # "failed"
    /\ Restart(file)
    /\ ev' = Event("none", NoId, FALSE, FALSE, FALSE, FALSE, TRUE)

\* the process dies inside a mutation of chat_id and is started again: after
\* the set changed and before write_text ("before_write"), or after open("w")
\* truncated the file and before the text reached it ("mid_write")
CrashInMutation ==
    /\ pc # "failed"
    /\ \E chat_id \in Ids, point \in {"before_write", "mid_write"} :
        /\ Restart(IF point = "mid_write" THEN FileGarbage ELSE file)
        /\ ev' = Event(IF chat_id \in GROUP_CHAT_IDS THEN "unregister" ELSE "register",
                       chat_id, chat_id \in GROUP_CHAT_IDS, point = "mid_write",
                       FALSE, FALSE, TRUE)

-----------------------------------------------------------------------------
(* The commands and the reminder building on a sheet                       *)

\* the process is up at local midnight of the first day, with a sheet
InitReports ==
    /\ now = 0
    /\ file = FileAbsent
    /\ CATCH_UP_PAST_DEADLINES \in BOOLEAN
    /\ GROUP_CHAT_IDS = load_groups(file).val
    /\ pc = "init"
    /\ run_at = 0
    /\ reminders = <<>>
    /\ targets = <<>>
    /\ gi = 1
    /\ ti = 1
    /\ attempts = <<>>
    /\ snapSet = {}
    /\ cycleResult = "none"
    /\ lastRunDay = NoDate
    /\ ev = NoEvent
    /\ sheet \in Sheets
    /\ last_ref = NoDate
    /\ last_tag = ""
    /\ reply = NoReply

\* what no command and no reminder building changes
ReportFrame ==
    UNCHANGED <<GROUP_CHAT_IDS, file, CATCH_UP_PAST_DEADLINES, pc, run_at, targets,
                gi, ti, attempts, snapSet, lastRunDay, ev, sheet>>

\* a day passes; what the commands of the past day returned is forgotten
DayPasses ==
    /\ now + TicksPerDay <= MaxNow
    /\ now' = now + TicksPerDay
    /\ reminders' = <<>>
    /\ cycleResult' = "none"
    /\ last_ref' = NoDate
    /\ last_tag' = ""
    /\ reply' = NoReply
    /\ ReportFrame

\* scheduled_check from read_rows() to `if not reminders: return`
BuildReminders ==
    /\ \E read_ok \in BOOLEAN :
        IF read_ok
        THEN /\ last_ref' = today_local(now)
             /\ reminders' = build_reminders(sheet, last_ref', CATCH_UP_PAST_DEADLINES)
             /\ cycleResult' = IF reminders' = <<>> THEN "empty" ELSE "running"
        ELSE /\ last_ref' = NoDate
             /\ reminders' = <<>>
             /\ cycleResult' = "error"
    /\ last_tag' = ""
    /\ reply' = NoReply
    /\ UNCHANGED now
    /\ ReportFrame

\* cmd_deadlines_ahead(update, context) with context.args joined to `args`
cmd_deadlines_ahead ==
    /\ \E args \in CommandArgs, read_ok \in BOOLEAN :
        LET tag_filter == IF args # "" THEN normalise_tag(args) ELSE "" IN
        /\ last_tag' = tag_filter
        /\ IF read_ok
           THEN /\ last_ref' = today_local(now)
                /\ reply' = format_deadlines_ahead(sheet, last_ref', tag_filter)
           ELSE /\ last_ref' = NoDate
                /\ reply' = NoReply
    /\ reminders' = <<>>
    /\ cycleResult' = "none"
    /\ UNCHANGED now
    /\ ReportFrame

\* cmd_my_deadlines(update, context) for effective_user `user`
cmd_my_deadlines ==
    /\ \E user \in Users, read_ok \in BOOLEAN :
        LET tag == USER_ID_TO_TAG(user) IN
        /\ last_tag' = tag
        /\ IF user = 0
           THEN /\ last_ref' = NoDate
                /\ reply' = NoReply
           ELSE IF tag = ""
           THEN /\ last_ref' = NoDate
                /\ reply' = Reply("unknown_user", "", NoDate, <<>>)
           ELSE IF read_ok
           THEN /\ last_ref' = today_local(now)
                /\ reply' = format_deadlines_ahead(sheet, last_ref', tag)
           ELSE /\ last_ref' = NoDate
                /\ reply' = NoReply
    /\ reminders' = <<>>
    /\ cycleResult' = "none"
    /\ UNCHANGED now
    /\ ReportFrame

-----------------------------------------------------------------------------
(* Specifications                                                          *)

Next ==
    \/ SchedulerStart
    \/ Wake
    \/ Send
    \/ on_any_group_message
    \/ on_my_chat_member
    \/ Crash
    \/ CrashInMutation

\* the whole program
Spec == Init /\ [][Next]_vars

\* the registry alone, started on every kind of groups.json: no scheduler
\* step reads or writes the registry or the file
StorageStates == InitialFiles \cup OddFiles

InitStorage == InitWith(StorageStates)

NextStorage ==
    \/ on_any_group_message
    \/ on_my_chat_member
    \/ Crash
    \/ CrashInMutation

SpecStorage == InitStorage /\ [][NextStorage]_vars

NextReports ==
    \/ DayPasses
    \/ BuildReminders
    \/ cmd_deadlines_ahead
    \/ cmd_my_deadlines

\* the deadline logic and the formatting alone, on every small sheet: they
\* read the sheet, the clock and CATCH_UP_PAST_DEADLINES, and nothing else
SpecReports == InitReports /\ [][NextReports]_vars

-----------------------------------------------------------------------------
(* Properties                                                              *)

\* the step is a Wake: the only step from "sleeping" that leaves a cycle result
CycleStarts == pc = "sleeping" /\ cycleResult' # "none"

AttemptsOf(g, t) == {i \in 1..Len(attempts) : attempts[i].g = g /\ attempts[i].t = t}

SymDiff(A, B) == (A \ B) \cup (B \ A)

\* main() has just run: no handler and no scheduler step since
JustStarted == pc = "init" /\ (ev = NoEvent \/ ev.crashed)

\* C1: in one run of the scheduler loop, each cycle after the first starts on
\* the local day following the day the previous cycle started on (no day has
\* two cycles, no day is skipped), whatever the cycle took and however late
\* the sleep woke.
C1_OneCyclePerDay ==
    [][CycleStarts /\ lastRunDay # NoDate => lastRunDay' = lastRunDay + 1]_vars

\* C2: a cycle that raised (here: read_rows failed) leaves the scheduler
\* waiting, never stopped, for the next REMINDER_TIME after the failure, which
\* is at most a day away, and the next cycle can start from there.
C2_FailedCycleKeepsLoop ==
    cycleResult = "error" =>
        /\ pc = "sleeping"
        /\ run_at > now
        /\ run_at - now <= TicksPerDay
        /\ run_at % TicksPerDay = REMINDER_TIME
        /\ (run_at <= MaxNow => ENABLED Wake)

C2_Witness == cycleResult = "error" /\ lastRunDay > 0 /\ run_at <= MaxNow

\* C3: once an attempt of a broadcast has failed, the broadcast goes on: it
\* is still sending, or every pair of a destination of the list and a message
\* has been attempted.
C3_FaultIsolation ==
    (\E i \in 1..Len(attempts) : ~attempts[i].ok) =>
        \/ pc = "sending"
        \/ \A g \in Range(targets), t \in 1..Len(reminders) : AttemptsOf(g, t) # {}

C3_Witness ==
    /\ cycleResult = "done"
    /\ Len(attempts) = 4
    /\ ~attempts[1].ok
    /\ \A i \in 2..4 : attempts[i].ok

\* C4: when a broadcast is over, each pair of a destination registered when it
\* began and a built message was attempted exactly once, failed or not, and
\* nothing else was attempted.
C4_ExactlyOnce ==
    cycleResult = "done" =>
        /\ \A g \in snapSet, t \in 1..Len(reminders) : Cardinality(AttemptsOf(g, t)) = 1
        /\ Len(attempts) = Cardinality(snapSet) * Len(reminders)

C4_Witness ==
    /\ cycleResult = "done"
    /\ Cardinality(snapSet) = 2
    /\ Len(reminders) = 2
    /\ \E i \in 1..Len(attempts) : ~attempts[i].ok

\* C5: during and after a broadcast the iterated list is a duplicate-free
\* listing of the registry as it was when the broadcast began, whatever
\* register/unregister calls ran between the sends, and only its members are
\* sent to; and every save that succeeds, also one between two sends, leaves
\* groups.json the sorted list of the whole in-memory set.
C5_Snapshot ==
    /\ (pc = "sending" \/ cycleResult = "done") =>
        /\ Range(targets) = snapSet
        /\ Len(targets) = Cardinality(snapSet)
        /\ \A i \in 1..Len(attempts) : attempts[i].g \in snapSet
        /\ cycleResult = "done" => {attempts[i].g : i \in 1..Len(attempts)} = snapSet
    /\ (ev.saved /\ ~ev.failed /\ ~ev.crashed) =>
        /\ file = FileJson(dumps_sorted(GROUP_CHAT_IDS))
        /\ load_groups(file).val = GROUP_CHAT_IDS

C5_Witness ==
    /\ pc = "sending"
    /\ attempts # <<>>
    /\ ev.op = "unregister" /\ ev.saved /\ ~ev.failed
    /\ ev.id \in snapSet
    /\ GROUP_CHAT_IDS # snapSet

PersistedOrInSync ==
    \/ ev.saved /\ ~ev.failed
    \/ ~ev.saved /\ load_groups(file).val = GROUP_CHAT_IDS

C7_CrashLosesAtMostOne ==
    [][ev'.crashed => SymDiff(GROUP_CHAT_IDS, GROUP_CHAT_IDS') \subseteq {ev'.id}]_vars

\* C8: a save that fails in register/unregister raises nothing out of the
\* handler, and the in-memory set keeps the mutation.
C8_PersistFailureNonFatal ==
    (ev.failed /\ ~ev.crashed) =>
        /\ ~ev.raised
        /\ ev.op = "register" => ev.id \in GROUP_CHAT_IDS
        /\ ev.op = "unregister" => ev.id \notin GROUP_CHAT_IDS

\* C9: load_groups raises for no state of groups.json, so start-up never
\* fails on it; it returns a set of integers, the empty set when the file is
\* absent, inaccessible, unreadable or not JSON; the registry starts as that
\* set.
C9_LoadNeverFails ==
    /\ pc # "failed"
    /\ ~load_groups(file).raised
    /\ \A x \in load_groups(file).val : x \in Int
    /\ file.kind \in {"absent", "inaccessible", "unreadable", "garbage"} =>
            load_groups(file).val = {}
    /\ JustStarted => GROUP_CHAT_IDS = load_groups(file).val

\* what load_groups does guarantee: once exists() has answered, no error of
\* reading, parsing or converting leaves it
C9_ReadErrorsSwallowed ==
    ~exists(file).raised =>
        /\ pc # "failed"
        /\ ~load_groups(file).raised
        /\ \A x \in load_groups(file).val : x \in Int
        /\ file.kind \in {"absent", "unreadable", "garbage"} => load_groups(file).val = {}
        /\ JustStarted => GROUP_CHAT_IDS = load_groups(file).val

\* restarted on a JSON list with an element int() rejects
C9_ReadErrorsSwallowed_Witness ==
    /\ JustStarted /\ ev.crashed
    /\ file.kind = "json" /\ file.doc.t = "list"
    /\ set_of_ints(file).raised
    /\ GROUP_CHAT_IDS = {}

\* C10: register of an identifier already in the set, and unregister of one
\* not in it, change neither the set nor groups.json and call no save.
C10_NoOpCalls ==
    [][(/\ ~ev'.crashed
        /\ \/ ev'.op = "register" /\ ev'.id \in GROUP_CHAT_IDS
           \/ ev'.op = "unregister" /\ ev'.id \notin GROUP_CHAT_IDS)
       => /\ GROUP_CHAT_IDS' = GROUP_CHAT_IDS
          /\ file' = file
          /\ ~ev'.saved]_vars

C10_Witness ==
    /\ ev.op = "register" /\ ev.present /\ ~ev.saved /\ ~ev.crashed
    /\ file.kind = "garbage"

\* today's target time, as a clock value, on the day of clock value t
TargetOn(t) == today_local(t) * TicksPerDay + REMINDER_TIME

\* C11: whenever the scheduler sleeps, run_at is what next_run_at made of the
\* clock reading `now`: today's target time if now is strictly before it,
\* tomorrow's target time if now is at or after it.
C11_NextRun ==
    pc = "sleeping" =>
        /\ now < TargetOn(now) => run_at = TargetOn(now)
        /\ now >= TargetOn(now) => run_at = TargetOn(now) + TicksPerDay

\* a cycle ended exactly at the target time of its day
C11_Witness ==
    /\ pc = "sleeping"
    /\ lastRunDay # NoDate
    /\ now = TargetOn(now)
    /\ run_at = now + TicksPerDay

\* the reminder building has just run on the sheet, at reference date last_ref
Built == cycleResult \in {"empty", "running"} /\ last_ref # NoDate

\* the records (row numbers) of the sheet that fire at last_ref
FiringRows ==
    {i \in 1..Len(sheet) : triggers_today(sheet[i], last_ref, CATCH_UP_PAST_DEADLINES)}

\* the record has something to report besides its tag
HasContent(r, d) ==
    \/ r.post_date # NoDate
    \/ r.topic # ""
    \/ r.block # ""
    \/ \E x \in {r.d1, r.d2} : x # NoDate /\ x >= d

\* reminders is, in the order of the sheet, the message of each record of I
MessagesOf(I) ==
    LET idx == sorted(I) IN
    /\ Len(reminders) = Len(idx)
    /\ \A k \in 1..Len(idx) :
         reminders[k] = build_reminder_message(sheet[idx[k]].who_tag, sheet[idx[k]], last_ref)

PresentDates(r) == {r.d1, r.d2, r.post_date} \ {NoDate}

\* C13: for every record of the sheet, at today's date and at the reference
\* date of the last build: in normal mode triggers_today is true exactly when
\* the date equals a present d1, d2 or post_date; in catch-up mode exactly when
\* the date is on or after a present one; with no date present it is false.
C13_FiresToday ==
    \A i \in 1..Len(sheet), d \in {today_local(now), last_ref} \ {NoDate} :
        LET r == sheet[i]
            fires == triggers_today(r, d, CATCH_UP_PAST_DEADLINES)
        IN /\ ~CATCH_UP_PAST_DEADLINES => (fires <=> d \in PresentDates(r))
           /\ CATCH_UP_PAST_DEADLINES => (fires <=> \E x \in PresentDates(r) : d >= x)
           /\ PresentDates(r) = {} => ~fires

\* catch-up mode: a message was built for a record whose only date is past
C13_Witness ==
    /\ Built /\ CATCH_UP_PAST_DEADLINES
    /\ Len(sheet) = 1 /\ Len(reminders) = 1
    /\ PresentDates(sheet[1]) = {sheet[1].post_date}
    /\ sheet[1].post_date < last_ref

\* C14: in catch-up mode, while the sheet is unchanged, a record that fires at
\* the date of one clock reading fires at the date of every later one.
C14_CatchUpMonotone ==
    [][(CATCH_UP_PAST_DEADLINES /\ sheet' = sheet /\ now' >= now) =>
        \A i \in 1..Len(sheet) :
            triggers_today(sheet[i], today_local(now), TRUE)
                => triggers_today(sheet'[i], today_local(now'), TRUE)]_vars

\* a record whose only date is day 0 gets its message again two days later
C14_Witness ==
    /\ Built /\ CATCH_UP_PAST_DEADLINES
    /\ last_ref = 2
    /\ Len(sheet) = 1 /\ Len(reminders) = 1
    /\ PresentDates(sheet[1]) = {0}
    /\ sheet[1].d1 = 0

\* the present values among deadline_1 and deadline_2 that are on or after d
AheadDates(r, d) == {x \in {r.d1, r.d2} : x # NoDate /\ x >= d}

\* C15: for every record of the sheet and today's date (and the reference
\* date of the last build or command), deadlines_ahead_list is the ascending,
\* duplicate-free list of exactly the present d1 / d2 on or after the date:
\* no earlier date, and post_date only if it is also d1 or d2.
C15_AheadDeadlines ==
    \A i \in 1..Len(sheet), d \in {today_local(now), last_ref} \ {NoDate} :
        LET r == sheet[i]
            dls == deadlines_ahead_list(r, d)
        IN /\ Range(dls) = AheadDates(r, d)
           /\ \A j \in 1..Len(dls) - 1 : dls[j] < dls[j + 1]
           /\ \A j \in 1..Len(dls) : dls[j] >= d
           /\ r.post_date \notin {r.d1, r.d2} => r.post_date \notin Range(dls)

\* a report lists, for one record, two deadlines given in descending order,
\* and not its later post date
C15_Witness ==
    /\ reply.kind = "report"
    /\ Len(sheet) = 1
    /\ sheet[1].d1 = 1 /\ sheet[1].d2 = 0 /\ sheet[1].post_date = 2
    /\ last_ref = 0
    /\ reply.groups[1].items[1].dls = <<0, 1>>

\* C16: for every record of the sheet and today's date (and the reference
\* date of the last build or command), build_reminder_message returns no
\* message exactly when the record has no post date, an empty topic, an empty
\* block and no ahead deadline; otherwise the message starts with the tag,
\* and it has a deadlines line, listing the ahead deadlines, exactly when
\* there is an ahead deadline.
C16_FireMessage ==
    \A i \in 1..Len(sheet), d \in {today_local(now), last_ref} \ {NoDate} :
        LET r == sheet[i]
            msg == build_reminder_message(r.who_tag, r, d)
            lines == {k \in 1..Len(msg) : msg[k].k = "dls"}
        IN /\ msg = NoMsg <=> ~HasContent(r, d)
           /\ msg # NoMsg => msg[1] = Part("tag", r.who_tag, <<>>)
           /\ (AheadDates(r, d) # {}) <=> lines # {}
           /\ \A k \in lines : Range(msg[k].ds) = AheadDates(r, d)

\* normal mode, tag @x, deadline_1 = the reference date and nothing else: the
\* one message built is the tag and the deadlines line
C16_Witness ==
    /\ Built /\ ~CATCH_UP_PAST_DEADLINES
    /\ Len(sheet) = 1
    /\ sheet[1] = Row(NoDate, "", "", "@x", last_ref, NoDate)
    /\ reminders = << <<Part("tag", "@x", <<>>), Part("dls", "", <<last_ref>>)>> >>

\* a command has just replied with the text of format_deadlines_ahead
Reported == reply.kind \in {"report", "nothing_ahead", "nothing_ahead_for_tag"}

\* the records (row numbers) that qualify for the report of the last command
Qualifying ==
    {i \in 1..Len(sheet) :
        /\ sheet[i].who_tag # ""
        /\ last_tag # "" => sheet[i].who_tag = last_tag
        /\ AheadDates(sheet[i], last_ref) # {}}

\* C17: the report of a command holds exactly the qualifying records (tag
\* non-empty, equal to the tag filter if there is one, an ahead deadline),
\* each once, under its tag; with no qualifying record the reply is the
\* "nothing ahead" text, and the one for a tag filter names the tag and
\* differs from the one without a filter.
C17_AheadReport ==
    Reported =>
        /\ reply.kind = "report" <=> Qualifying # {}
        /\ reply.kind = "nothing_ahead" <=> (Qualifying = {} /\ last_tag = "")
        /\ reply.kind = "nothing_ahead_for_tag" =>
                reply.tag = last_tag /\ reply # Reply("nothing_ahead", "", NoDate, <<>>)
        /\ reply.kind = "report" =>
            /\ {reply.groups[g].tag : g \in 1..Len(reply.groups)}
                    = {sheet[i].who_tag : i \in Qualifying}
            /\ \A g, h \in 1..Len(reply.groups) :
                    reply.groups[g].tag = reply.groups[h].tag => g = h
            /\ \A g \in 1..Len(reply.groups) :
                LET mine == {i \in Qualifying : sheet[i].who_tag = reply.groups[g].tag}
                    items == reply.groups[g].items
                IN /\ Len(items) = Cardinality(mine)
                   /\ Range(items) =
                        {render_item(sheet[i], sorted(AheadDates(sheet[i], last_ref))) :
                            i \in mine}

\* a tag filter leaves nothing of a sheet that has deadlines ahead for
\* another tag: the reply is the text that names the filter
C17_Witness ==
    /\ reply.kind = "nothing_ahead_for_tag"
    /\ last_tag = "@x"
    /\ \E i \in 1..Len(sheet) :
            sheet[i].who_tag = "@y" /\ AheadDates(sheet[i], last_ref) # {}

\* groups.json is a JSON list of integers, strictly ascending (sorted, no
\* duplicates), whose elements are exactly the in-memory set
PersistedIsSortedSet ==
    /\ file.kind = "json"
    /\ file.doc.t = "list"
    /\ LET items == file.doc.items IN
        /\ \A i \in 1..Len(items) : items[i].t = "num"
        /\ \A i \in 1..Len(items) - 1 : items[i].n < items[i + 1].n
        /\ {items[i].n : i \in 1..Len(items)} = GROUP_CHAT_IDS

\* C18: a register/unregister call that applies a mutation and whose save
\* does not fail leaves groups.json the sorted duplicate-free list of exactly
\* the in-memory set; and from then on every call without a failed save
\* keeps it so.
C18_PersistedForm ==
    [][(~ev'.crashed /\ ~ev'.failed /\ (ev'.saved \/ PersistedIsSortedSet))
        => PersistedIsSortedSet']_vars

\* both identifiers registered, the second one just now, and written
C18_Witness ==
    /\ ev.op = "register" /\ ev.saved /\ ~ev.failed /\ ~ev.crashed
    /\ GROUP_CHAT_IDS = Ids
    /\ PersistedIsSortedSet
    /\ Len(file.doc.items) = 2

C20_CycleLeavesRegistry ==
    [][ev' = NoEvent =>
        /\ GROUP_CHAT_IDS' = GROUP_CHAT_IDS
        /\ file' = file
        /\ (CycleStarts /\ reminders' = <<>>) => (attempts' = <<>> /\ pc' = "sleeping")
        /\ (CycleStarts /\ reminders' # <<>>) => Range(targets') = GROUP_CHAT_IDS]_vars

\* a later cycle in which every delivery to both groups failed has ended, and
\* both groups are still registered and on disk
C20_Witness ==
    /\ ev = NoEvent
    /\ cycleResult = "done"
    /\ lastRunDay > 0
    /\ attempts # <<>>
    /\ \A i \in 1..Len(attempts) : ~attempts[i].ok
    /\ GROUP_CHAT_IDS = Ids
    /\ PersistedIsSortedSet

====
